---- MODULE Spec2Model ----
(***************************************************************************)
(* Model of the permission audit and repair of module directories          *)
(* (app/modules/module_manager.py): check_directory_permissions and        *)
(* fix_directory_permissions, run by one server process against a          *)
(* directory tree whose objects carry an owner, a group and mode bits.     *)
(***************************************************************************)
EXTENDS Integers, Sequences, FiniteSets, TLC

(*************************** bounds of the model ***************************)
\* The audited tree is a chain of ChainLen nested directories d0/d1/...
\* with one file in d0 and one in the innermost directory.
ChainLen == 2
\* At most MaxDeviant attributes (owner, group or mode of one object) differ
\* from the compliant tree when the server starts; MaxDeviantAudit is the
\* same bound for the runs of the audit alone.
MaxDeviant == 1
MaxDeviantAudit == 2
\* At most MaxConns websocket clients exist.
MaxConns == 3

(**************************** program constants ****************************)
S_IRGRP == 32
S_IWGRP == 16
S_IXGRP == 8
S_IROTH == 4
S_IWOTH == 2
S_IXOTH == 1
\* chmod 775 / find -perm -775
DirTargetMode == 509
\* chmod 664 / find -perm -664
FileTargetMode == 436
\* find -maxdepth 3
FindMaxDepth == 3
\* [:5]
MaxInconsistent == 5

PermBits == {256, 128, 64, 32, 16, 8, 4, 2, 1}

\* mode & bit
HasBit(mode, bit) == (mode \div bit) % 2 = 1

\* find -perm -mask : every bit of mask is set in mode
PermAtLeast(mode, mask) == \A b \in PermBits : HasBit(mask, b) => HasBit(mode, b)

\* oct(st_mode)[-3:]
OctMode(mode) == <<(mode \div 64) % 8, (mode \div 8) % 8, mode % 8>>

(****************************** the tree **********************************)
NoNode == 0 - 1
RootDir == 0
Dirs == 0 .. (ChainLen - 1)
ShallowFile == ChainLen
DeepFile == ChainLen + 1
Files == {ShallowFile, DeepFile}
Nodes == Dirs \cup Files

IsDir(n) == n \in Dirs
IsFile(n) == n \in Files

Parent(n) ==
  IF n \in Dirs THEN n - 1
  ELSE IF n = ShallowFile THEN RootDir
  ELSE ChainLen - 1

Depth(n) == IF n = RootDir THEN 0 ELSE Parent(n) + 1

\* proper ancestors of n (the chain of directories above it)
Ancestors(n) == IF n = RootDir THEN {} ELSE 0 .. Parent(n)

Users == {"odoo", "dev"}
Owners == {"odoo", "dev"}
Groups == {"odoo", "staff"}

GoodAttr(n) ==
  [owner |-> "odoo", group |-> "odoo",
   mode |-> IF IsDir(n) THEN DirTargetMode ELSE FileTargetMode]

GoodTree == [n \in Nodes |-> GoodAttr(n)]

\* the (object, attribute) pairs in which a tree may deviate
Slots == Nodes \X {"owner", "group", "mode"}

RECURSIVE SubsetsUpTo(_, _)
SubsetsUpTo(S, k) ==
  IF k = 0 THEN {{}}
  ELSE LET prev == SubsetsUpTo(S, k - 1)
       IN  prev \cup {T \cup {x} : T \in prev, x \in S}

\* the non-compliant modes an object is given: 770 or 700 for a directory,
\* 600 or 775 for a file
AltMode(n, i) ==
  IF IsDir(n) THEN (IF i = 1 THEN 504 ELSE 448)
              ELSE (IF i = 1 THEN 384 ELSE 509)

TreeOf(S, m) ==
  [n \in Nodes |->
     [owner |-> IF <<n, "owner">> \in S THEN "dev" ELSE "odoo",
      group |-> IF <<n, "group">> \in S THEN "staff" ELSE "odoo",
      mode  |-> IF <<n, "mode">> \in S THEN AltMode(n, m[n]) ELSE GoodAttr(n).mode]]

TreesUpTo(k) ==
  UNION {{TreeOf(S, m) : m \in [Nodes -> 1 .. 2]} : S \in SubsetsUpTo(Slots, k)}

(******************************** state ***********************************)
VARIABLES
  exists,       \* os.path.exists(directory)
  fs,           \* owner, group and mode of every object of the tree
  caller,       \* the user the server process runs as
  procInGroup,  \* the process has the odoo group among its supplementary groups
  loginOk,      \* os.getlogin() finds a login name (controlling terminal)
  members,      \* users listed as members of the odoo group (group database)
  lastOp,       \* the operation that ran last: "none", "check", "fix", "poll",
                \* "resolve", "start", "stop" or "restart"
  lastIn,       \* what the environment did during that operation
  result,       \* the value it returned
  calls,        \* the OS queries and commands it issued, in order
  registry,     \* config["services"] of the cached configuration
  loaded,       \* config["services"] as read from the file
  cached,       \* _config_cache is not None
  configFiles,  \* what every configuration path holds
  active_connections,  \* ConnectionManager.active_connections
  bcast         \* the broadcast coroutine: where it stands and what it did

wsVars == <<active_connections, bcast>>

vars == <<exists, fs, caller, procInGroup, loginOk, members, lastOp, lastIn, result,
          calls, registry, loaded, cached, configFiles, wsVars>>

(***************************** identities *********************************)
\* get_odoo_user(): the User= line of odoo.service, 'odoo' by default
GetOdooUser == "odoo"

\* get_odoo_group(): the name of the primary group of the odoo user
GetOdooGroup == "odoo"

\* process credentials: is the calling process in group g
CallerInGroup(g) ==
  IF g = GetOdooGroup THEN caller = GetOdooUser \/ (caller = "dev" /\ procInGroup)
  ELSE caller = "dev"

\* os.access(path, R_OK | W_OK | X_OK) for the calling process; what is one
\* of S_IROTH, S_IWOTH, S_IXOTH and selects the r, w or x bit of a class
Access(t, n, what) ==
  IF caller = t[n].owner THEN HasBit(t[n].mode, what * 64)
  ELSE IF CallerInGroup(t[n].group) THEN HasBit(t[n].mode, what * 8)
  ELSE HasBit(t[n].mode, what)

\* is_user_in_odoo_group(username)
IsUserInOdooGroup(username) ==
  IF username \notin Users THEN FALSE
  ELSE IF username \in members THEN TRUE
  ELSE username = GetOdooUser

(******************************** find ************************************)
\* the objects of directory d's subtree in the order find visits them:
\* a directory before its entries, its files before its subdirectory
RECURSIVE Walk(_)
Walk(d) ==
  LET fl == {f \in Files : Parent(f) = d}
      files == IF fl = {} THEN <<>> ELSE <<CHOOSE f \in fl : TRUE>>
      sub == IF d + 1 \in Dirs THEN Walk(d + 1) ELSE <<>>
  IN  <<d>> \o files \o sub

WalkOrder == Walk(RootDir)

\* find run by the calling process reaches n when it can list and search
\* every directory above it
Reachable(t, n, asRoot) ==
  asRoot \/ \A a \in Ancestors(n) : Access(t, a, S_IROTH) /\ Access(t, a, S_IXOTH)

\* find <dir> <tests> -maxdepth 3 -print -quit : the first object, in visiting
\* order, among those that pass the tests, as the list of printed lines
FindQuit(t, pass) ==
  LET w == WalkOrder
      hits == {i \in 1 .. Len(w) :
                 /\ Depth(w[i]) <= FindMaxDepth
                 /\ Reachable(t, w[i], FALSE)
                 /\ w[i] \in pass}
  IN  IF hits = {} THEN <<>>
      ELSE <<w[CHOOSE i \in hits : \A j \in hits : i <= j]>>

\* -type f ! -user U -o ! -group G -print : -o binds weaker than the implied
\* -a, so the action belongs to the second branch only
OwnershipTest(t, n) ==
  IF IsFile(n) /\ t[n].owner # GetOdooUser THEN FALSE
  ELSE t[n].group # GetOdooGroup

\* -type f ! -perm -664
FilePermTest(t, n) == IsFile(n) /\ ~PermAtLeast(t[n].mode, FileTargetMode)

\* -type d ! -perm -775
DirPermTest(t, n) == IsDir(n) /\ ~PermAtLeast(t[n].mode, DirTargetMode)

\* lst[:5]
Take5(lst) == SubSeq(lst, 1, IF Len(lst) < MaxInconsistent THEN Len(lst) ELSE MaxInconsistent)

\* lines 227-286: the three find runs and the fallback when one cannot run;
\* in.findFail names the run (1, 2 or 3) whose subprocess.run raises, 0 none
ConsistencyScan(t, in, isOwner, isGroup) ==
  LET f1 == FindQuit(t, {n \in Nodes : OwnershipTest(t, n)})
      f2 == FindQuit(t, {n \in Nodes : FilePermTest(t, n)})
      f3 == FindQuit(t, {n \in Nodes : DirPermTest(t, n)})
      fallback == isOwner /\ isGroup
  IN  IF in.findFail = 1
        THEN [files_consistent |-> fallback, inconsistent_files |-> <<>>, runs |-> 1]
      ELSE IF f1 # <<>>
        THEN [files_consistent |-> FALSE, inconsistent_files |-> Take5(f1), runs |-> 1]
      ELSE IF in.findFail = 2
        THEN [files_consistent |-> fallback, inconsistent_files |-> <<>>, runs |-> 2]
      ELSE IF in.findFail = 3
        THEN [files_consistent |-> fallback, inconsistent_files |-> Take5(f2), runs |-> 3]
      ELSE IF f2 # <<>>
        THEN [files_consistent |-> FALSE, inconsistent_files |-> Take5(f2), runs |-> 3]
      ELSE IF f3 # <<>>
        THEN [files_consistent |-> FALSE, inconsistent_files |-> Take5(f3), runs |-> 3]
      ELSE [files_consistent |-> TRUE, inconsistent_files |-> <<>>, runs |-> 3]

(*********************** check_directory_permissions ***********************)
\* the verdict with the write test moved in front of the access test
VerdictWritableFirst(readable, writable, executable, isOwner, consistent, grp, oth) ==
  IF ~writable THEN "warning"
  ELSE IF ~readable \/ ~executable THEN "error"
  ELSE IF ~isOwner THEN "error"
  ELSE IF ~consistent THEN "warning"
  ELSE IF ~grp THEN "warning"
  ELSE IF ~oth THEN "warning"
  ELSE "ok"

\* the verdict with a foreign owner downgraded to a warning
VerdictOwnerWarning(readable, writable, executable, isOwner, consistent, grp, oth) ==
  IF ~readable \/ ~executable THEN "error"
  ELSE IF ~isOwner THEN "warning"
  ELSE IF ~writable THEN "warning"
  ELSE IF ~consistent THEN "warning"
  ELSE IF ~grp THEN "warning"
  ELSE IF ~oth THEN "warning"
  ELSE "ok"

\* lines 295-308: the verdict, first matching rule first
Verdict(readable, writable, executable, isOwner, consistent, grp, oth) ==
  IF ~readable \/ ~executable THEN "error"
  ELSE IF ~isOwner THEN "error"
  ELSE IF ~writable THEN "warning"
  ELSE IF ~consistent THEN "warning"
  ELSE IF ~grp THEN "warning"
  ELSE IF ~oth THEN "warning"
  ELSE "ok"

\* lines 200-357, the body of the try block: the report, or the exception
\* that leaves the block as [raised |-> message].  in.statFails: os.stat
\* raises (the path vanished after the existence test)
CheckTry(t, in) ==
  LET mode == t[RootDir].mode
      readable == Access(t, RootDir, S_IROTH)
      writable == Access(t, RootDir, S_IWOTH)
      executable == Access(t, RootDir, S_IXOTH)
      group_readable == HasBit(mode, S_IRGRP)
      group_writable == HasBit(mode, S_IWGRP)
      group_executable == HasBit(mode, S_IXGRP)
      others_readable == HasBit(mode, S_IROTH)
      others_writable == HasBit(mode, S_IWOTH)
      others_executable == HasBit(mode, S_IXOTH)
      is_odoo_owner == (t[RootDir].owner = GetOdooUser)
      is_odoo_group == (t[RootDir].group = GetOdooGroup)
      scan == ConsistencyScan(t, in, is_odoo_owner, is_odoo_group)
      status == Verdict(readable, writable, executable, is_odoo_owner,
                        scan.files_consistent,
                        group_readable /\ group_writable /\ group_executable,
                        others_readable /\ others_executable)
      report ==
        [status |-> status,
         readable |-> readable, writable |-> writable, executable |-> executable,
         group_readable |-> group_readable, group_writable |-> group_writable,
         group_executable |-> group_executable,
         others_readable |-> others_readable, others_writable |-> others_writable,
         others_executable |-> others_executable,
         files_consistent |-> scan.files_consistent,
         owner |-> t[RootDir].owner, group |-> t[RootDir].group,
         is_odoo_owner |-> is_odoo_owner, is_odoo_group |-> is_odoo_group,
         odoo_group_members |-> members,
         current_user_in_odoo_group |-> IsUserInOdooGroup(caller),
         mode |-> OctMode(mode)]
  IN  IF ~exists \/ in.statFails THEN [raised |-> "stat"]
      ELSE IF ~loginOk THEN [raised |-> "getlogin"]
      ELSE IF scan.files_consistent THEN report
      ELSE [f \in DOMAIN report \cup {"inconsistent_files"} |->
              IF f = "inconsistent_files" THEN Take5(scan.inconsistent_files)
              ELSE report[f]]

\* the audit without its except clause: the exception leaves the function
CheckNoExcept(r) == r

\* lines 359-364: the except clause of the audit
CheckExcept(r) ==
  IF "raised" \in DOMAIN r THEN [status |-> "error", error |-> r.raised] ELSE r

\* the audit without the existence test of lines 193-198
CheckWithoutExistsTest(t, in) == CheckExcept(CheckTry(t, in))

\* lines 181-364
CheckDirectoryPermissions(t, in) ==
  IF ~exists
    THEN [status |-> "not_found", error |-> "Directory does not exist"]
    ELSE CheckExcept(CheckTry(t, in))

\* the OS queries and commands the audit issues, in order
CheckCalls(t, in) ==
  LET scan == ConsistencyScan(t, in, t[RootDir].owner = GetOdooUser,
                              t[RootDir].group = GetOdooGroup)
      finds == SubSeq(<<"find_ownership", "find_file_perm", "find_dir_perm">>, 1, scan.runs)
  IN  IF ~exists THEN <<"exists">>
      ELSE IF in.statFails THEN <<"exists", "stat">>
      ELSE <<"exists", "stat", "access", "get_odoo_uid", "get_odoo_gid">> \o finds
           \o <<"get_odoo_uid", "getpwuid", "getgrgid", "get_odoo_group_members", "getlogin">>
           \o (IF loginOk THEN <<"is_user_in_odoo_group">> ELSE <<>>)

CheckInputs ==
  {in \in [statFails : BOOLEAN, findFail : 0 .. 3] : in.statFails => in.findFail = 0}

(************************ fix_directory_permissions ************************)
\* What the environment does during one repair.  fail names the command that
\* fails: "chmod" and "chown" are the two commands on the directory itself,
\* "chownR", "count", "chmodD", "chmodF" the four of the recursive phase.  A
\* recursive command fails on one object (node) or cannot run at all (NoNode).
\* grp is the outcome of the group-membership step: "groups" when the
\* membership query fails, "usermod" when the group-add command fails.
FailChoices ==
  {[step |-> st, node |-> NoNode] : st \in {"none", "chmod", "chown", "count"}}
  \cup {[step |-> "chownR", node |-> n] : n \in Nodes \cup {NoNode}}
  \cup {[step |-> "chmodD", node |-> n] : n \in Dirs \cup {NoNode}}
  \cup {[step |-> "chmodF", node |-> n] : n \in Files \cup {NoNode}}

FixInputs ==
  {in \in [grp : {"ok", "groups", "usermod"}, fail : FailChoices] :
     in.fail.step \in {"chmod", "chown"} => in.grp = "ok"}

\* sudo chmod 775 <directory>
ChmodTop(t) == [t EXCEPT ![RootDir].mode = DirTargetMode]

\* sudo chown user:group <directory>
ChownTop(t) == [t EXCEPT ![RootDir].owner = GetOdooUser, ![RootDir].group = GetOdooGroup]

\* the two commands run without check=True: a failure goes unnoticed
TopLevelIgnored(in) == FALSE

\* lines 393 and 400: subprocess.run(..., check=True) raises when the command
\* on the directory itself fails; nothing around it catches before line 468
TopLevelRaises(in) == in.fail.step \in {"chmod", "chown"}

\* line 403: os.getlogin() is called before the try of the membership step
LoginRaises == ~loginOk

\* lines 404-416: "odoo" in the output of `groups <user>`, else usermod -a -G;
\* every exception of the step is caught and logged.  The members afterwards.
GroupStep(in) ==
  IF in.grp = "groups" THEN members
  ELSE IF caller = "odoo" \/ caller \in members THEN members
  ELSE IF in.grp = "usermod" THEN members
  ELSE members \cup {caller}

\* the commands of the membership step that are run
GroupCalls(in) ==
  IF in.grp = "groups" \/ caller = "odoo" \/ caller \in members
    THEN <<"groups">>
    ELSE <<"groups", "sudo_usermod">>

\* sudo chown -R user:group <directory>, failing on object skip (if any)
ChownR(t, skip) ==
  [n \in Nodes |-> IF n = skip THEN t[n]
                   ELSE [t[n] EXCEPT !.owner = GetOdooUser, !.group = GetOdooGroup]]

\* sudo find <directory> -type d -exec chmod 775 {} ;
ChmodDirs(t, skip) ==
  [n \in Nodes |-> IF IsDir(n) /\ n # skip THEN [t[n] EXCEPT !.mode = DirTargetMode] ELSE t[n]]

\* sudo find <directory> -type f -exec chmod 664 {} ;
ChmodFiles(t, skip) ==
  [n \in Nodes |-> IF IsFile(n) /\ n # skip THEN [t[n] EXCEPT !.mode = FileTargetMode] ELSE t[n]]

\* find <directory> -type f -o -type d -print, run by the calling process:
\* -print belongs to the -type d branch only, so the lines are the directories
CountLines(t) == {n \in Nodes : IsDir(n) /\ Reachable(t, n, FALSE)}

\* find exits non-zero when it cannot list a directory it reached
CountFails(t) ==
  \E d \in Dirs : Reachable(t, d, FALSE)
                  /\ ~(Access(t, d, S_IROTH) /\ Access(t, d, S_IXOTH))

\* len(result.stdout.strip().split('\n'))
AffectedItems(t) ==
  LET k == Cardinality(CountLines(t)) IN IF k = 0 THEN 1 ELSE k

\* the status of a variant that never reports "failed"
FixStatusNeverFailed(fixed_count, failed_count) ==
  IF failed_count = 0 THEN "fixed" ELSE "partially_fixed"

\* lines 450-456
FixStatus(fixed_count, failed_count) ==
  IF failed_count = 0 THEN "fixed"
  ELSE IF fixed_count > 0 THEN "partially_fixed"
  ELSE "failed"

\* lines 458-463
FixOutcome(fixed_count, failed_count) ==
  [success |-> fixed_count > 0, status |-> FixStatus(fixed_count, failed_count),
   fixed_count |-> fixed_count, failed_count |-> failed_count]

\* lines 418-448: the recursive phase on tree t; its counts, the tree it
\* leaves and the commands it ran
Recursive(t, in) ==
  LET f == in.fail
      t1 == ChownR(t, NoNode)
      t2 == ChmodDirs(t1, IF f.step = "chmodD" THEN f.node ELSE NoNode)
      t3 == ChmodFiles(t2, IF f.step = "chmodF" THEN f.node ELSE NoNode)
      n == AffectedItems(t1)
  IN  IF f.step = "chownR"
        THEN [fixed |-> 0, failed |-> 1,
              tree |-> IF f.node = NoNode THEN t ELSE ChownR(t, f.node),
              cmds |-> <<"sudo_chown_R">>]
      ELSE IF f.step = "count" \/ CountFails(t1)
        THEN [fixed |-> 0, failed |-> 1, tree |-> t1,
              cmds |-> <<"sudo_chown_R", "find_count">>]
      ELSE IF f.step = "chmodD" /\ f.node = NoNode
        THEN [fixed |-> n, failed |-> 1, tree |-> t1,
              cmds |-> <<"sudo_chown_R", "find_count", "sudo_find_chmod_dirs">>]
      ELSE IF f.step = "chmodF" /\ f.node = NoNode
        THEN [fixed |-> n, failed |-> 1, tree |-> t2,
              cmds |-> <<"sudo_chown_R", "find_count", "sudo_find_chmod_dirs",
                         "sudo_find_chmod_files">>]
      ELSE [fixed |-> n, failed |-> 0, tree |-> t3,
            cmds |-> <<"sudo_chown_R", "find_count", "sudo_find_chmod_dirs",
                       "sudo_find_chmod_files">>]

\* lines 386-473: the call once os.path.exists(directory) has held
FixExisting(t, in) ==
  LET t1 == ChmodTop(t)
      t2 == ChownTop(t1)
      rec == Recursive(t2, in)
  IN  IF TopLevelRaises(in) /\ in.fail.step = "chmod"
        THEN [res |-> [success |-> FALSE, error |-> "chmod"],
              tree |-> t, members |-> members, cmds |-> <<"exists", "sudo_chmod">>]
      ELSE IF TopLevelRaises(in) /\ in.fail.step = "chown"
        THEN [res |-> [success |-> FALSE, error |-> "chown"],
              tree |-> t1, members |-> members,
              cmds |-> <<"exists", "sudo_chmod", "sudo_chown">>]
      ELSE IF LoginRaises
        THEN [res |-> [success |-> FALSE, error |-> "getlogin"],
              tree |-> t2, members |-> members,
              cmds |-> <<"exists", "sudo_chmod", "sudo_chown", "getlogin">>]
      ELSE [res |-> FixOutcome(rec.fixed, rec.failed),
            tree |-> rec.tree, members |-> GroupStep(in),
            cmds |-> <<"exists", "sudo_chmod", "sudo_chown", "getlogin">>
                     \o GroupCalls(in) \o rec.cmds]

\* a variant that goes on to the commands without looking for the directory
FixWithoutExistsTest(t, in) == FixExisting(t, in)

\* lines 367-473: the dictionary returned (res), the tree and the group
\* members left behind, and the commands run
FixDirectoryPermissions(t, in) ==
  IF ~exists
    THEN [res |-> [success |-> FALSE, error |-> "Directory does not exist"],
          tree |-> t, members |-> members, cmds |-> <<"exists">>]
    ELSE FixExisting(t, in)

(************************** the service registry **************************)
\* The strings the code joins, splits and searches are sequences of tokens:
\* the separators "_" and "@", the suffix ".service", and words that hold
\* none of them.
OdooKey == <<"odoo">>
PostgresKey == <<"postgres">>
OdooUnit == <<"odoo">>
PostgresUnit == <<"postgresql">>
Pg14 == <<"postgresql", "@", "14-main">>
Pg15 == <<"postgresql", "@", "15-main">>
Pg16 == <<"postgresql", "@", "16-main">>
\* an instance named without the template
Bare14 == <<"14-main">>
WorkerKey == <<"odoo", "_", "worker">>
WorkerUnit == <<"odoo-worker">>
ProxyKey == <<"web", "_", "proxy">>
ProxyUnit == <<"nginx">>
UnknownKey == <<"redis">>

Range(q) == {q[i] : i \in DOMAIN q}

\* an entry of config["services"]; hasInstances: the entry has an
\* "instances" key
Entry(key, name, has, inst, auto) ==
  [key |-> key, service_name |-> name, hasInstances |-> has,
   instances |-> inst, auto_detect |-> auto]

PlainEntry(key, name) == Entry(key, name, FALSE, <<>>, FALSE)

\* the "postgres" entries a configuration file may hold
PostgresEntries ==
  {Entry(PostgresKey, PostgresUnit, FALSE, <<>>, auto) : auto \in BOOLEAN}
  \cup {Entry(PostgresKey, PostgresUnit, TRUE, inst, auto) :
          inst \in {<<>>, <<Pg14>>, <<Bare14>>}, auto \in BOOLEAN}

\* config["services"] as loaded, in the order of the file
Registries ==
  {<<PlainEntry(OdooKey, OdooUnit), pg>> \o extra :
     pg \in PostgresEntries,
     extra \in {<<>>, <<PlainEntry(WorkerKey, WorkerUnit)>>,
                <<PlainEntry(ProxyKey, ProxyUnit)>>}}

DefaultRegistry ==
  <<PlainEntry(OdooKey, OdooUnit), Entry(PostgresKey, PostgresUnit, FALSE, <<>>, FALSE)>>

\* key in config["services"]
HasKey(reg, key) == \E i \in DOMAIN reg : reg[i].key = key

\* config["services"][key]
Lookup(reg, key) == reg[CHOOSE i \in DOMAIN reg : reg[i].key = key]

\* the positions at which sep occurs in str
Occurrences(str, sep) ==
  {i \in 1 .. (Len(str) - Len(sep) + 1) : SubSeq(str, i, i + Len(sep) - 1) = sep}

\* sep in str
Contains(str, sep) == Occurrences(str, sep) # {}

\* str.split(sep)
RECURSIVE Split(_, _)
Split(str, sep) ==
  IF ~Contains(str, sep) THEN <<str>>
  ELSE LET i == CHOOSE j \in Occurrences(str, sep) :
                  \A k \in Occurrences(str, sep) : j <= k
       IN  <<SubSeq(str, 1, i - 1)>> \o Split(SubSeq(str, i + Len(sep), Len(str)), sep)

\* str.replace('@', '_')
ReplaceAt(str) == [i \in DOMAIN str |-> IF str[i] = "@" THEN "_" ELSE str[i]]

\* str.replace(".service", "")
StripService(str) == SelectSeq(str, LAMBDA c : c # ".service")

\* str.startswith("postgresql@")
IsTemplateUnit(str) == Len(str) >= 2 /\ str[1] = "postgresql" /\ str[2] = "@"

\* the lines `systemctl list-units postgresql@* --no-legend` may print: the
\* unit name in the first column, after a bullet for a unit that failed
Line(unit, mark) == [unit |-> unit \o <<".service">>, mark |-> mark]

Listings ==
  {<<>>, <<Line(Pg14, FALSE)>>, <<Line(Pg14, FALSE), Line(Pg15, FALSE)>>,
   <<Line(Pg14, FALSE), Line(Pg15, TRUE)>>, <<Line(Pg16, FALSE)>>}

\* What systemctl answers about one unit.  live is the word is-active prints,
\* report the lines status prints (each a sequence of words, ":" apart);
\* liveRaises and reportRaises: running the command raises.
Answer(liveRaises, live, reportRaises, report) ==
  [liveRaises |-> liveRaises, live |-> live, reportRaises |-> reportRaises,
   report |-> report]

LoadedLine == <<"Loaded", ":", "loaded">>
ActiveLine(word, detail) == <<"Active", ":", word, detail>>
NotFoundLine == <<"Unit", "could", "not", "be", "found.">>

IsActive == Answer(FALSE, "active", FALSE, <<>>)
IsInactive == Answer(FALSE, "inactive", FALSE, <<LoadedLine, ActiveLine("inactive", "(dead)")>>)
IsActivating == Answer(FALSE, "activating", FALSE, <<LoadedLine, ActiveLine("activating", "(start)")>>)
IsFailed == Answer(FALSE, "failed", FALSE, <<LoadedLine, ActiveLine("failed", "(Result: exit-code)")>>)
\* the unit is not known: status prints no Active line
IsUnknown == Answer(FALSE, "inactive", FALSE, <<NotFoundLine>>)
\* the unit finished starting between the two queries
HasStarted == Answer(FALSE, "activating", FALSE, <<LoadedLine, ActiveLine("active", "(running)")>>)
\* the unit is active; status, were it asked, would say it is stopping
IsStopping == Answer(FALSE, "active", FALSE, <<LoadedLine, ActiveLine("deactivating", "(stop)")>>)
\* the state word is all the Active line holds, in parentheses
IsDead == Answer(FALSE, "inactive", FALSE, <<<<"Active", ":", "(dead)">>>>)
LiveRaises == Answer(TRUE, "", FALSE, <<>>)
ReportRaises == Answer(FALSE, "inactive", TRUE, <<>>)

Answers ==
  {IsActive, IsInactive, IsActivating, IsFailed, IsUnknown, HasStarted, IsStopping,
   IsDead, LiveRaises, ReportRaises}

\* the answers a poll meets for the one unit it singles out
PollAnswers == {IsActive, IsActivating, LiveRaises}

\* what the operating system answers during one poll: the listing, whether
\* running it raises, and the answer about one unit (every other unit is
\* inactive)
OsAnswers ==
  {os \in [listing : Listings, listRaises : BOOLEAN,
           unit : {OdooUnit, Pg14}, answer : PollAnswers \cup {IsInactive}] :
     /\ os.listRaises => os.listing = <<>>
     /\ os.answer = IsInactive => os.unit = OdooUnit}

\* what the operating system answers about unit during the call
AnswerOf(os, unit) == IF unit = os.unit THEN os.answer ELSE IsInactive

\* lines 63-96: parts[0] of every line, kept when it starts with
\* "postgresql@", with ".service" removed; [] when the command raises
DetectPostgresqlInstances(os) ==
  IF os.listRaises THEN <<>>
  ELSE LET first(l) == IF l.mark THEN <<"bullet">> ELSE l.unit
           kept == SelectSeq(os.listing, LAMBDA l : IsTemplateUnit(first(l)))
       IN  [i \in DOMAIN kept |-> StripService(first(kept[i]))]

\* "Active:" in line
HasActiveLabel(line) ==
  \E i \in 1 .. (Len(line) - 1) : line[i] = "Active" /\ line[i + 1] = ":"

\* line.split(':', 1)[1].strip().split(' ', 1)[0]: the first word after the
\* first colon of the line, "" when there is none
FirstWordAfterColon(line) ==
  LET i == CHOOSE j \in DOMAIN line :
             line[j] = ":" /\ \A k \in DOMAIN line : line[k] = ":" => j <= k
  IN  IF i < Len(line) THEN line[i + 1] ELSE ""

\* word.strip('()')
StripParens(word) == IF word = "(dead)" THEN "dead" ELSE word

\* lines 46-53: the state word of the first line that holds "Active:", or
\* the status so far when no line does
ParseReport(report, status) ==
  LET hits == {i \in DOMAIN report : HasActiveLabel(report[i])}
  IN  IF hits = {} THEN status
      ELSE LET i == CHOOSE j \in hits : \A k \in hits : j <= k
           IN  StripParens(FirstWordAfterColon(report[i]))

\* a variant that asks for the detailed report whatever is-active prints
StatusOfAlwaysDetailed(a) ==
  IF a.liveRaises \/ a.reportRaises THEN "error" ELSE ParseReport(a.report, a.live)

\* lines 26-60 on the answer a: is-active first, status only when the word
\* is not "active", "error" when either command raises
StatusOf(a) ==
  IF a.liveRaises THEN "error"
  ELSE IF a.live = "active" THEN "active"
  ELSE IF a.reportRaises THEN "error"
  ELSE ParseReport(a.report, a.live)

\* the systemctl commands get_service_status runs on the answer a
StatusCalls(a) ==
  IF a.liveRaises \/ a.live = "active" THEN <<"is-active">>
  ELSE <<"is-active", "status">>

\* lines 14-60
GetServiceStatus(os, unit) == StatusOf(AnswerOf(os, unit))

\* lines 125-127: append every detected instance the list does not hold
RECURSIVE AppendNew(_, _)
AppendNew(list, detected) ==
  IF detected = <<>> THEN list
  ELSE AppendNew(IF Head(detected) \in Range(list) THEN list
                 ELSE Append(list, Head(detected)),
                 Tail(detected))

\* lines 119-127: the list the instance loop runs over
InstancesOf(e, os) ==
  IF e.auto_detect THEN AppendNew(e.instances, DetectPostgresqlInstances(os))
  ELSE e.instances

\* a variant of line 131 that joins the key and the unit name as it is
InstanceKeyJoined(service_key, instance) == service_key \o <<"_">> \o instance

\* line 131
InstanceKey(service_key, instance) == service_key \o <<"_">> \o ReplaceAt(instance)

\* lines 112-132 for one entry: the (key, unit) pairs written to the result
EntryQueries(e, os) ==
  <<[key |-> e.key, unit |-> e.service_name, derived |-> FALSE]>>
  \o (IF e.key = PostgresKey
        THEN LET inst == InstancesOf(e, os)
             IN  [i \in DOMAIN inst |->
                    [key |-> InstanceKey(e.key, inst[i]), unit |-> inst[i],
                     derived |-> TRUE]]
        ELSE <<>>)

\* lines 112-132 for the whole registry, in the order of config["services"]
RECURSIVE Queries(_, _)
Queries(reg, os) ==
  IF reg = <<>> THEN <<>> ELSE EntryQueries(Head(reg), os) \o Queries(Tail(reg), os)

\* lines 119 and 127: service_config.get("instances", []) is the list held
\* by the cached configuration when the entry has one, and append changes it
RegistryAfterPoll(reg, os) ==
  [i \in DOMAIN reg |->
     IF reg[i].key = PostgresKey /\ reg[i].hasInstances
       THEN [reg[i] EXCEPT !.instances = InstancesOf(reg[i], os)]
       ELSE reg[i]]

\* a variant in which a state query that raises ends the loop: the
\* dictionary holds the keys written before it
GetAllServicesStatusAborting(reg, os) ==
  LET qs == Queries(reg, os)
      bad == {i \in DOMAIN qs : AnswerOf(os, qs[i].unit).liveRaises}
      done == {i \in DOMAIN qs : \A j \in bad : i < j}
  IN  [k \in {qs[i].key : i \in done} |-> "inactive"]

\* lines 99-134: the dictionary returned, a later write to a key replacing
\* an earlier one
GetAllServicesStatus(reg, os) ==
  LET qs == Queries(reg, os)
      last(k) == CHOOSE i \in DOMAIN qs :
                   qs[i].key = k /\ \A j \in DOMAIN qs : qs[j].key = k => j <= i
  IN  [k \in {qs[i].key : i \in DOMAIN qs} |-> GetServiceStatus(os, qs[last(k)].unit)]

PgInfix == <<"_", "postgresql", "_">>

\* lines 137-164
GetServiceNameFromKey(reg, service_key) ==
  LET instance_parts == Split(service_key, PgInfix)
      base_service_key == Split(service_key, <<"_">>)[1]
  IN  IF Contains(service_key, PgInfix) /\ Len(instance_parts) = 2
        THEN <<"postgresql", "@">> \o instance_parts[2]
      ELSE IF HasKey(reg, base_service_key)
        THEN Lookup(reg, base_service_key).service_name
      ELSE service_key

\* how the control command ends: it exits 0, it exits non-zero
\* (CalledProcessError), or it cannot be launched (OSError)
ControlOutcomes == {"ok", "nonzero", "oserror"}

\* a variant that reports False for a non-zero exit only
ControlResultExitOnly(outcome) == outcome # "nonzero"

\* lines 181-200: True; False in both except clauses
ControlResult(outcome) == outcome = "ok"

\* the keys callers pass to the resolver and to start, stop and restart
ServiceKeys ==
  {OdooKey, PostgresKey, WorkerKey, ProxyKey, UnknownKey,
   InstanceKey(PostgresKey, Pg14), InstanceKey(PostgresKey, Bare14)}

(***************************** configuration ******************************)
\* DEFAULT_CONFIG_PATH and two other paths a caller or CONFIG_PATH may name
DefaultPath == "config/config.json"
Paths == {DefaultPath, "a.json", "b.json"}

\* what a path holds: no file, a file that is not JSON, or a configuration
FileMissing == [kind |-> "missing", services |-> <<>>]
FileInvalid == [kind |-> "invalid", services |-> <<>>]
FileOk(reg) == [kind |-> "ok", services |-> reg]

\* a second configuration, with one more entry
OtherRegistry == DefaultRegistry \o <<PlainEntry(ProxyKey, ProxyUnit)>>

FileContents == {FileMissing, FileInvalid, FileOk(DefaultRegistry), FileOk(OtherRegistry)}

\* lines 68-69: the path argument, else CONFIG_PATH, else the default
EffectivePath(arg, env) ==
  IF arg # "None" THEN arg ELSE IF env # "unset" THEN env ELSE DefaultPath

\* lines 23-53: the file system calls of load_config and what it returns or
\* raises
LoadConfig(path) ==
  LET f == configFiles[path]
  IN  IF f.kind = "missing"
        THEN [raised |-> TRUE, error |-> "FileNotFoundError", config |-> <<>>,
              calls |-> <<[op |-> "exists", path |-> path]>>]
      ELSE IF f.kind = "invalid"
        THEN [raised |-> TRUE, error |-> "JSONDecodeError", config |-> <<>>,
              calls |-> <<[op |-> "exists", path |-> path], [op |-> "open", path |-> path]>>]
      ELSE [raised |-> FALSE, error |-> "", config |-> f.services,
            calls |-> <<[op |-> "exists", path |-> path], [op |-> "open", path |-> path]>>]

\* a variant that reads the file again whenever a path argument is given
GetConfigReloading(arg, env) ==
  LET l == LoadConfig(EffectivePath(arg, env))
  IN  IF cached /\ arg = "None"
        THEN [raised |-> FALSE, error |-> "", config |-> registry, calls |-> <<>>,
              cached |-> TRUE]
      ELSE [raised |-> l.raised, error |-> l.error,
            config |-> IF l.raised THEN registry ELSE l.config,
            calls |-> l.calls, cached |-> cached \/ ~l.raised]

\* lines 56-74: what get_config returns or raises, the file system calls
\* it made, and the cache afterwards
GetConfigOf(arg, env) ==
  LET l == LoadConfig(EffectivePath(arg, env))
  IN  IF cached
        THEN [raised |-> FALSE, error |-> "", config |-> registry, calls |-> <<>>,
              cached |-> TRUE]
      ELSE [raised |-> l.raised, error |-> l.error, config |-> l.config,
            calls |-> l.calls, cached |-> ~l.raised]

(************************ the connection manager **************************)
\* the websocket objects; each one is handed to connect once, by its handler
Conns == 1 .. MaxConns

\* list.remove(c): the list without the first element equal to c
RemoveFirst(list, c) ==
  LET i == CHOOSE k \in DOMAIN list :
             list[k] = c /\ \A j \in 1 .. k - 1 : list[j] # c
  IN  SubSeq(list, 1, i - 1) \o SubSeq(list, i + 1, Len(list))

\* a disconnect that removes nothing
DisconnectKeeping(list, c) == list

\* ConnectionManager.disconnect: remove the connection when it is listed
DisconnectOf(list, c) ==
  IF c \in Range(list) THEN RemoveFirst(list, c) ELSE list

\* the loop that ends a broadcast: disconnect every connection whose send
\* raised
RECURSIVE Cleanup(_, _)
Cleanup(list, disconnected) ==
  IF disconnected = <<>> THEN list
  ELSE Cleanup(DisconnectOf(list, Head(disconnected)), Tail(disconnected))

\* The broadcast in progress, or the one that has just returned.  idx is the position of
\* the list iterator (the element the loop is sending to), sent the
\* connections a send was issued to, in order, disconnected the local list
\* of those whose send raised.  start, quiet and left record the list when
\* the broadcast began, whether connect or disconnect ran since, and the
\* connections a handler removed since.
NoBroadcast ==
  [pc |-> "idle", kind |-> "none", idx |-> 0, sent |-> <<>>,
   disconnected |-> <<>>, start |-> <<>>, quiet |-> TRUE, left |-> {},
   known |-> {}]

\* the websocket objects the running broadcast has met; a new client is a
\* new object
Known == IF bcast.pc = "sending" THEN bcast.known ELSE {}

(************************** the state machine *****************************)
NoResult == [none |-> TRUE]

\* the process and the group database when the server starts
InitProcess ==
  /\ caller \in Users
  /\ procInGroup \in (IF caller = "dev" THEN BOOLEAN ELSE {FALSE})
  /\ loginOk \in BOOLEAN
  /\ members \in (IF procInGroup THEN {{"dev"}} ELSE {{}, {"dev"}})
  /\ lastOp = "none"
  /\ lastIn = NoResult
  /\ result = NoResult
  /\ calls = <<>>

\* get_config() has loaded the configuration file, and no client is
\* connected
InitConfig(regs) ==
  /\ registry \in regs
  /\ loaded = registry
  /\ cached = TRUE
  /\ configFiles = [p \in Paths |-> FileOk(registry)]
  /\ active_connections = <<>>
  /\ bcast = NoBroadcast

Init ==
  /\ exists \in BOOLEAN
  /\ fs \in (IF exists THEN TreesUpTo(MaxDeviant) ELSE {GoodTree})
  /\ InitProcess
  /\ InitConfig({DefaultRegistry})

InitAudit ==
  /\ exists \in BOOLEAN
  /\ fs \in (IF exists THEN TreesUpTo(MaxDeviantAudit) ELSE {GoodTree})
  /\ InitProcess
  /\ InitConfig({DefaultRegistry})

\* one call of check_directory_permissions(directory)
Check ==
  \E in \in CheckInputs :
    /\ lastOp' = "check"
    /\ lastIn' = in
    /\ result' = CheckDirectoryPermissions(fs, in)
    /\ calls' = CheckCalls(fs, in)
    /\ UNCHANGED <<exists, fs, caller, procInGroup, loginOk, members, registry, loaded,
                 cached, configFiles, wsVars>>

\* one call of fix_directory_permissions(directory)
Fix ==
  \E in \in FixInputs :
    LET r == FixDirectoryPermissions(fs, in)
    IN  /\ lastOp' = "fix"
        /\ lastIn' = in
        /\ result' = r.res
        /\ calls' = r.cmds
        /\ fs' = r.tree
        /\ members' = r.members
        /\ UNCHANGED <<exists, caller, procInGroup, loginOk, registry, loaded,
                 cached, configFiles, wsVars>>

Next == Check \/ Fix

Spec == Init /\ [][Next]_vars

\* the audit alone, on every tree
SpecAudit == InitAudit /\ [][Check]_vars

(********************* the service monitor's operations *******************)
\* the server has loaded one of the configurations; the module directory
\* plays no part
InitSvc ==
  /\ exists = FALSE /\ fs = GoodTree
  /\ caller = "odoo" /\ procInGroup = FALSE /\ loginOk = TRUE /\ members = {}
  /\ lastOp = "none" /\ lastIn = NoResult /\ result = NoResult /\ calls = <<>>
  /\ InitConfig(Registries)

\* one call of get_all_services_status(); calls holds the units queried
Poll ==
  \E os \in OsAnswers :
    /\ lastOp' = "poll"
    /\ lastIn' = os
    /\ result' = GetAllServicesStatus(registry, os)
    /\ calls' = Queries(registry, os)
    /\ registry' = RegistryAfterPoll(registry, os)
    /\ UNCHANGED <<exists, fs, caller, procInGroup, loginOk, members, loaded,
                 cached, configFiles, wsVars>>

\* one call of get_service_status(service_name); calls holds the systemctl
\* commands it ran
QueryStatus ==
  \E unit \in {OdooUnit, Pg14}, a \in Answers :
    /\ lastOp' = "status"
    /\ lastIn' = [unit |-> unit, answer |-> a]
    /\ result' = StatusOf(a)
    /\ calls' = StatusCalls(a)
    /\ UNCHANGED <<exists, fs, caller, procInGroup, loginOk, members, registry, loaded,
                 cached, configFiles, wsVars>>

\* one call of get_service_name_from_key(service_key)
Resolve ==
  \E key \in ServiceKeys :
    /\ lastOp' = "resolve"
    /\ lastIn' = key
    /\ result' = GetServiceNameFromKey(registry, key)
    /\ calls' = <<>>
    /\ UNCHANGED <<exists, fs, caller, procInGroup, loginOk, members, registry, loaded,
                 cached, configFiles, wsVars>>

\* lines 167-272: sudo systemctl <verb> on the resolved name
Control(verb) ==
  \E key \in ServiceKeys, outcome \in ControlOutcomes :
    /\ lastOp' = verb
    /\ lastIn' = [key |-> key, outcome |-> outcome]
    /\ result' = ControlResult(outcome)
    /\ calls' = <<[cmd |-> verb, unit |-> GetServiceNameFromKey(registry, key)]>>
    /\ UNCHANGED <<exists, fs, caller, procInGroup, loginOk, members, registry, loaded,
                 cached, configFiles, wsVars>>

StartService == Control("start")

StopService == Control("stop")

RestartService == Control("restart")

NextSvc ==
  Poll \/ QueryStatus \/ Resolve \/ StartService \/ StopService \/ RestartService

SpecSvc == InitSvc /\ [][NextSvc]_vars

(************************* loading the configuration **********************)
\* the server has started and no one has called get_config yet
InitCfg ==
  /\ exists = FALSE /\ fs = GoodTree
  /\ caller = "odoo" /\ procInGroup = FALSE /\ loginOk = TRUE /\ members = {}
  /\ lastOp = "none" /\ lastIn = NoResult /\ result = NoResult /\ calls = <<>>
  /\ cached = FALSE /\ registry = <<>> /\ loaded = <<>>
  /\ configFiles \in [Paths -> FileContents]
  /\ active_connections = <<>> /\ bcast = NoBroadcast

\* one call of get_config(config_path) with CONFIG_PATH set to env
GetConfig ==
  \E arg \in Paths \cup {"None"}, env \in Paths \cup {"unset"} :
    LET r == GetConfigOf(arg, env)
    IN  /\ lastOp' = "get_config"
        /\ lastIn' = [arg |-> arg, env |-> env]
        /\ result' = [raised |-> r.raised, error |-> r.error, config |-> r.config]
        /\ calls' = r.calls
        /\ cached' = r.cached
        /\ registry' = IF r.raised THEN registry ELSE r.config
        /\ loaded' = IF cached \/ r.raised THEN loaded ELSE r.config
        /\ UNCHANGED <<exists, fs, caller, procInGroup, loginOk, members, configFiles, wsVars>>

\* someone writes, replaces or removes a configuration file
WriteFile ==
  \E p \in Paths, c \in FileContents :
    /\ configFiles[p] # c
    /\ configFiles' = [configFiles EXCEPT ![p] = c]
    /\ lastOp' = "write_file"
    /\ lastIn' = [path |-> p]
    /\ UNCHANGED <<exists, fs, caller, procInGroup, loginOk, members, result, calls,
                   registry, loaded, cached, wsVars>>

NextCfg == GetConfig \/ WriteFile

SpecCfg == InitCfg /\ [][NextCfg]_vars

(*************************** websocket clients ****************************)
\* the server runs and no client is connected
InitWs ==
  /\ exists = FALSE /\ fs = GoodTree
  /\ caller = "odoo" /\ procInGroup = FALSE /\ loginOk = TRUE /\ members = {}
  /\ lastOp = "none" /\ lastIn = NoResult /\ result = NoResult /\ calls = <<>>
  /\ InitConfig({DefaultRegistry})

wsRest == <<exists, fs, caller, procInGroup, loginOk, members, result, calls,
            registry, loaded, cached, configFiles>>

\* connect(websocket): the handshake, then the append
Connect ==
  \E c \in Conns \ (Range(active_connections) \cup Known) :
    /\ active_connections' = Append(active_connections, c)
    /\ bcast' = IF bcast.pc = "sending"
                THEN [bcast EXCEPT !.quiet = FALSE, !.known = @ \cup {c}]
                ELSE NoBroadcast
    /\ lastOp' = "connect"
    /\ lastIn' = [conn |-> c]
    /\ UNCHANGED wsRest

\* the handler of websocket c ends and calls disconnect(websocket)
Disconnect ==
  \E c \in Conns :
    /\ active_connections' = DisconnectOf(active_connections, c)
    /\ bcast' = IF bcast.pc = "sending"
                THEN [bcast EXCEPT
                        !.quiet = FALSE,
                        !.left = IF c \in Range(active_connections)
                                 THEN @ \cup {c} ELSE @]
                ELSE NoBroadcast
    /\ lastOp' = "disconnect"
    /\ lastIn' = [conn |-> c]
    /\ UNCHANGED wsRest

\* broadcast / broadcast_json up to its first await: the send to the first
\* connection; on an empty list the call returns at once
BroadcastStart ==
  \E kind \in {"text", "json"} :
    /\ bcast.pc = "idle"
    /\ bcast' = IF active_connections = <<>>
                THEN [NoBroadcast EXCEPT !.kind = kind]
                ELSE [NoBroadcast EXCEPT
                        !.pc = "sending", !.kind = kind, !.idx = 1,
                        !.sent = <<active_connections[1]>>,
                        !.start = active_connections,
                        !.known = Range(active_connections)]
    /\ lastOp' = IF active_connections = <<>> THEN "broadcast" ELSE "send"
    /\ lastIn' = [kind |-> kind]
    /\ UNCHANGED active_connections
    /\ UNCHANGED wsRest

\* the awaited send returns or raises; the loop takes the next element of
\* the list as it is now and awaits its send, or, past the end of the list,
\* disconnects the connections whose send raised and returns
SendCompletes ==
  \E ok \in BOOLEAN :
    /\ bcast.pc = "sending"
    /\ LET connection == bcast.sent[Len(bcast.sent)]
           disconnected == IF ok THEN bcast.disconnected
                           ELSE Append(bcast.disconnected, connection)
           next == bcast.idx + 1
       IN  IF next <= Len(active_connections)
           THEN /\ bcast' = [bcast EXCEPT
                               !.idx = next,
                               !.sent = Append(@, active_connections[next]),
                               !.disconnected = disconnected]
                /\ lastOp' = "send"
                /\ UNCHANGED active_connections
           ELSE /\ bcast' = [bcast EXCEPT
                               !.pc = "idle", !.disconnected = disconnected]
                /\ lastOp' = "broadcast"
                /\ active_connections' = Cleanup(active_connections, disconnected)
    /\ lastIn' = [kind |-> bcast.kind]
    /\ UNCHANGED wsRest

NextWs == Connect \/ Disconnect \/ BroadcastStart \/ SendCompletes

SpecWs == InitWs /\ [][NextWs]_vars

(******************************* claims ***********************************)
\* the last operation was an audit that returned a full report
Audited == lastOp = "check" /\ "readable" \in DOMAIN result

\* objects find looks at: at most FindMaxDepth levels below the directory
InScan(n) == Depth(n) <= FindMaxDepth

Compliant(n) ==
  /\ fs[n].owner = "odoo"
  /\ fs[n].group = "odoo"
  /\ PermAtLeast(fs[n].mode, IF IsDir(n) THEN DirTargetMode ELSE FileTargetMode)

\* C1: an audit that returns a full report gives the status of the first rule
\* that matches, in the order: not readable or not executable (error), owner
\* mismatch (error), not writable (warning), files inconsistent (warning),
\* group lacks r, w or x (warning), others lack r or x (warning), else ok.
C1_VerdictPrecedence ==
  Audited =>
    LET r == result
        r1 == ~r.readable \/ ~r.executable
        r2 == ~r.is_odoo_owner
        r3 == ~r.writable
        r4 == ~r.files_consistent
        r5 == ~(r.group_readable /\ r.group_writable /\ r.group_executable)
        r6 == ~(r.others_readable /\ r.others_executable)
    IN  /\ r.is_odoo_owner = (fs[RootDir].owner = "odoo")
        /\ r1 => r.status = "error"
        /\ (~r1 /\ r2) => r.status = "error"
        /\ (~r1 /\ ~r2 /\ r3) => r.status = "warning"
        /\ (~r1 /\ ~r2 /\ ~r3 /\ r4) => r.status = "warning"
        /\ (~r1 /\ ~r2 /\ ~r3 /\ ~r4 /\ r5) => r.status = "warning"
        /\ (~r1 /\ ~r2 /\ ~r3 /\ ~r4 /\ ~r5 /\ r6) => r.status = "warning"
        /\ (~r1 /\ ~r2 /\ ~r3 /\ ~r4 /\ ~r5 /\ ~r6) => r.status = "ok"

\* an audit in which the caller can neither read nor write: the access rule
\* wins over the write rule
C1_Witness ==
  /\ Audited
  /\ ~result.readable /\ ~result.writable
  /\ result.status = "error"

\* the last operation was an audit whose find commands all ran
Scanned == Audited /\ lastIn.findFail = 0

\* C2 (as claimed, for audits whose find commands all ran): status ok implies
\* that every access, ownership and consistency check passes, down to every
\* object within the scan depth; and the status is error whenever the caller
\* cannot read or traverse the directory or its owner is not the service user.
C2_OkMeansAllChecksPass ==
  Scanned =>
    /\ result.status = "ok" =>
         /\ Access(fs, RootDir, S_IROTH) /\ Access(fs, RootDir, S_IWOTH)
         /\ Access(fs, RootDir, S_IXOTH)
         /\ fs[RootDir].owner = "odoo" /\ fs[RootDir].group = "odoo"
         /\ PermAtLeast(fs[RootDir].mode, DirTargetMode)
         /\ \A n \in Nodes : InScan(n) => Compliant(n)
    /\ (~Access(fs, RootDir, S_IROTH) \/ ~Access(fs, RootDir, S_IXOTH)
        \/ fs[RootDir].owner # "odoo") => result.status = "error"

\* C3 (as claimed): a directory owned by the service user and group with mode
\* 775 whose objects within the scan are all compliant is reported ok and
\* consistent, whoever the caller is and whether or not it has a login name.
C3_CompliantIsOk ==
  (/\ lastOp = "check" /\ exists
   /\ ~lastIn.statFails /\ lastIn.findFail = 0
   /\ fs[RootDir] = GoodAttr(RootDir)
   /\ \A n \in Nodes : InScan(n) => fs[n] = GoodAttr(n))
  => /\ result.status = "ok"
     /\ "files_consistent" \in DOMAIN result
     /\ result.files_consistent

\* C4 (as claimed): a directory of mode 700 that the caller owns is reported
\* with status error, readable, writable, not group-readable and not
\* others-readable.
C4_Mode700IsError ==
  (Audited /\ fs[RootDir].mode = 448 /\ fs[RootDir].owner = caller)
  => /\ result.status = "error"
     /\ result.readable /\ result.writable
     /\ ~result.group_readable /\ ~result.others_readable

\* C4 (amended): for a directory of mode 700 that the caller owns, a full
\* report says readable, writable, not group-readable, not others-readable;
\* its status is error when the owner is not the service user and warning
\* when it is.
C4_Mode700ErrorOrWarning ==
  (Audited /\ fs[RootDir].mode = 448 /\ fs[RootDir].owner = caller)
  => /\ result.readable /\ result.writable
     /\ ~result.group_readable /\ ~result.others_readable
     /\ result.status = (IF caller = "odoo" THEN "warning" ELSE "error")

\* the test's case: the directory belongs to the caller, who is not the
\* service user
C4_Witness ==
  /\ Audited
  /\ fs[RootDir].mode = 448 /\ fs[RootDir].owner = caller /\ caller # "odoo"
  /\ result.status = "error" /\ result.readable /\ ~result.group_readable

\* C5 (as claimed, for audits whose find commands all ran): a regular file
\* within the scan depth that is not owned by the service user makes the
\* report inconsistent with a recorded path; and files_consistent is false
\* exactly when some object within the scan diverges in owner, group or mode.
C5_ForeignFileIsInconsistent ==
  Scanned =>
    /\ (\E n \in Files : InScan(n) /\ fs[n].owner # "odoo") =>
         /\ ~result.files_consistent
         /\ "inconsistent_files" \in DOMAIN result
         /\ result.inconsistent_files # <<>>
    /\ ~result.files_consistent <=> (\E n \in Nodes : InScan(n) /\ ~Compliant(n))

\* C6: for a path that does not exist the audit returns not_found after the
\* existence test alone: no metadata read, identity lookup or command.
C6_NotFoundImmediately ==
  (lastOp = "check" /\ ~exists) =>
    /\ result.status = "not_found"
    /\ calls = <<"exists">>

C6_Witness == lastOp = "check" /\ ~exists /\ result.status = "not_found"

\* the find run that could not be started, if the audit got that far
FindFailed ==
  \/ lastIn.findFail = 1
  \/ lastIn.findFail = 2 /\ \E i \in DOMAIN calls : calls[i] = "find_file_perm"
  \/ lastIn.findFail = 3 /\ \E i \in DOMAIN calls : calls[i] = "find_dir_perm"

\* C7 (as claimed): the audit of an existing path never raises, and every
\* failure of the metadata read, the login-name lookup or a command yields
\* status error with an error message.
C7_EveryFailureIsError ==
  (lastOp = "check" /\ exists) =>
    /\ "status" \in DOMAIN result
    /\ (lastIn.statFails \/ ~loginOk \/ FindFailed) =>
         result.status = "error" /\ "error" \in DOMAIN result

\* C7 (amended): the audit of an existing path never raises; a failure of the
\* metadata read or of the login-name lookup yields status error with an
\* error message; a find command that cannot be run is absorbed: the report
\* is complete, files_consistent is whether the directory's owner and group
\* both match, and the status follows from the verdict rules.
C7_NeverRaises ==
  (lastOp = "check" /\ exists) =>
    /\ "status" \in DOMAIN result
    /\ "raised" \notin DOMAIN result
    /\ (lastIn.statFails \/ ~loginOk) =>
         result.status = "error" /\ "error" \in DOMAIN result
    /\ (~lastIn.statFails /\ loginOk) =>
         /\ Audited /\ "error" \notin DOMAIN result
         /\ FindFailed =>
              result.files_consistent =
                (fs[RootDir].owner = "odoo" /\ fs[RootDir].group = "odoo")

\* the login name cannot be determined: an error report, not an exception
C7_Witness ==
  /\ lastOp = "check" /\ exists /\ ~loginOk /\ ~lastIn.statFails
  /\ result.status = "error" /\ "error" \in DOMAIN result

\* the last operation was a repair of an existing directory
Repaired == lastOp = "fix" /\ exists

\* C8 (as claimed, for repairs in which no command is made to fail):
\* fixed_count + failed_count is the number of objects of the tree, files as
\* well as directories.
C8_CountsEveryObject ==
  (Repaired /\ lastIn.fail.step = "none" /\ "fixed_count" \in DOMAIN result)
  => result.fixed_count + result.failed_count = Cardinality(Nodes)

\* C9 (as claimed): when the command that sets the directory's own mode or
\* ownership fails, the repair counts one failed item, goes on with the
\* remaining steps and returns a status and counts.
C9_TopLevelFailureIsCounted ==
  (Repaired /\ lastIn.fail.step \in {"chmod", "chown"}) =>
    /\ "failed_count" \in DOMAIN result
    /\ result.failed_count >= 1
    /\ "status" \in DOMAIN result
    /\ \E i \in DOMAIN calls : calls[i] = "sudo_chown_R"

\* C9 (amended): when the command that sets the directory's own mode or
\* ownership fails, the repair stops there: it returns success false with an
\* error entry and neither status nor counts, and runs no later command.
C9_TopLevelFailureAborts ==
  (Repaired /\ lastIn.fail.step \in {"chmod", "chown"}) =>
    /\ DOMAIN result = {"success", "error"}
    /\ result.success = FALSE
    /\ calls[Len(calls)] = (IF lastIn.fail.step = "chmod" THEN "sudo_chmod" ELSE "sudo_chown")
    /\ \A i \in DOMAIN calls :
         calls[i] \notin {"getlogin", "groups", "sudo_usermod", "sudo_chown_R",
                          "find_count", "sudo_find_chmod_dirs", "sudo_find_chmod_files"}

\* the ownership change of the directory itself fails
C9_Witness ==
  /\ Repaired /\ lastIn.fail.step = "chown"
  /\ result.success = FALSE /\ "error" \in DOMAIN result

\* C10 (as claimed): the membership step never changes the outcome: whenever
\* the two commands on the directory itself succeed, the repair returns the
\* success, status and counts of its recursive phase, whether or not the
\* login name, the membership query and the group-add command work.
C10_MembershipStepNeverMatters ==
  [][(lastOp' = "fix" /\ exists /\ ~TopLevelRaises(lastIn')) =>
       result' = (LET rec == Recursive(ChownTop(ChmodTop(fs)), lastIn')
                  IN  FixOutcome(rec.fixed, rec.failed))]_vars

\* the last operation was a repair that returned a status and counts
Counted == Repaired /\ "fixed_count" \in DOMAIN result

\* C11: in every outcome a repair returns with counts, the status is "fixed"
\* exactly when failed_count = 0 and fixed_count > 0, "partially_fixed"
\* exactly when both counts are positive, and "failed" exactly when
\* fixed_count = 0.
C11_StatusFromCounts ==
  Counted =>
    /\ result.status = "fixed"
         <=> (result.failed_count = 0 /\ result.fixed_count > 0)
    /\ result.status = "partially_fixed"
         <=> (result.failed_count > 0 /\ result.fixed_count > 0)
    /\ result.status = "failed" <=> result.fixed_count = 0

\* the pass over the files fails as a whole after the items were counted
C11_Witness ==
  /\ Counted /\ lastIn.fail = [step |-> "chmodF", node |-> NoNode]
  /\ result.status = "partially_fixed"
  /\ result.fixed_count > 0 /\ result.failed_count > 0

\* C12 (as claimed, for a recursive ownership change that fails on one
\* object): when a repair corrects at least one object of the tree and fails
\* on another, it returns success true with fixed_count > 0, failed_count > 0
\* and the status "partially_fixed".
C12_PartialIsReported ==
  [][(/\ lastOp' = "fix" /\ exists
      /\ lastIn'.fail.step = "chownR" /\ lastIn'.fail.node \in Nodes
      /\ calls'[Len(calls')] = "sudo_chown_R"
      /\ \E n \in Nodes \ {RootDir} : fs'[n] # fs[n])
     => (/\ result'.success = TRUE
         /\ "fixed_count" \in DOMAIN result'
         /\ result'.fixed_count > 0 /\ result'.failed_count > 0
         /\ result'.status = "partially_fixed")]_vars

\* no command of the call with inputs in is made to fail
AllCommandsSucceed(in) == in.fail.step = "none" /\ in.grp # "usermod"

\* C13 (as claimed, for a process with a login name): a second repair that
\* follows a first one, every privileged command of both succeeding, leaves
\* the ownership and mode of every object as the first left them and returns
\* failed_count = 0 and the status "fixed".
C13_SecondCallIsClean ==
  [][(/\ lastOp = "fix" /\ lastOp' = "fix" /\ exists /\ loginOk
      /\ AllCommandsSucceed(lastIn) /\ AllCommandsSucceed(lastIn'))
     => (/\ fs' = fs
         /\ "failed_count" \in DOMAIN result'
         /\ result'.failed_count = 0
         /\ result'.status = "fixed")]_vars

\* C14 (as claimed, for a process with a login name): after a repair in
\* which every privileged command succeeds, every directory of the tree has
\* mode 775, every regular file mode 664, and every object the expected
\* owner and group.
C14_TreeIsCompliantAfterFix ==
  (Repaired /\ loginOk /\ AllCommandsSucceed(lastIn))
  => \A n \in Nodes : fs[n] = GoodAttr(n)

\* C15: for a path that does not exist, a repair returns success false with
\* an error entry and attempts no item: it runs no ownership, mode or
\* group-membership command and returns no counts.
C15_MissingPathRunsNothing ==
  (lastOp = "fix" /\ ~exists) =>
    /\ DOMAIN result = {"success", "error"}
    /\ result.success = FALSE
    /\ calls = <<"exists">>
    /\ fs = GoodTree

\* a repair was asked for a missing path
C15_Witness ==
  /\ lastOp = "fix" /\ ~exists
  /\ result = [success |-> FALSE, error |-> "Directory does not exist"]

\* C16 (as claimed, for a failure of the recursive ownership change):
\* whenever a repair returns success false, the result carries an error
\* entry that describes the failure.
C16_FailureCarriesError ==
  (Repaired /\ lastIn.fail.step = "chownR" /\ result.success = FALSE)
  => "error" \in DOMAIN result

\* the instance list of the "postgres" entry of a registry
ConfiguredInstances(reg) ==
  IF HasKey(reg, PostgresKey) THEN Range(Lookup(reg, PostgresKey).instances) ELSE {}

\* C17 (as claimed): the registry held in the cached configuration is never
\* modified after it is loaded: after any sequence of polls, resolutions and
\* start, stop and restart calls, every entry, instance list included,
\* equals its value at load time.
C17_RegistryNeverModified == registry = loaded

\* C18 (as claimed): the result of a poll is built from the configured
\* registry and the units the operating system reports during that poll
\* only: every derived key of the result belongs to an instance that is in
\* the configured instance list or is reported by this poll's discovery.
C18_PollUsesCurrentStateOnly ==
  lastOp = "poll" =>
    \A i \in DOMAIN calls :
      calls[i].derived =>
        calls[i].unit \in ConfiguredInstances(loaded)
                          \cup Range(DetectPostgresqlInstances(lastIn))

\* C19 (as claimed): for every derived key a poll emits for an instance of
\* the family, discovered or configured, the resolver applied to that key
\* returns the unit that was queried for it, a unit of the shape
\* postgresql@instance.
C19_DerivedKeyResolvesToQueriedUnit ==
  lastOp = "poll" =>
    \A i \in DOMAIN calls :
      calls[i].derived =>
        /\ GetServiceNameFromKey(registry, calls[i].key) = calls[i].unit
        /\ IsTemplateUnit(calls[i].unit)

\* the keys of the registry's plain entries: every entry but the family
PlainKeys(reg) ==
  {reg[i].key : i \in {j \in DOMAIN reg : reg[j].key # PostgresKey}}

\* C20 (as claimed): for every key configured as a plain entry, keys with
\* an underscore included, the resolver returns the entry's service_name,
\* and start, stop and restart act on that name.
C20_PlainKeyResolvesToConfiguredName ==
  /\ (lastOp = "resolve" /\ lastIn \in PlainKeys(registry))
       => result = Lookup(registry, lastIn).service_name
  /\ (lastOp \in {"start", "stop", "restart"} /\ lastIn.key \in PlainKeys(registry))
       => calls[1].unit = Lookup(registry, lastIn.key).service_name

\* C30 (as claimed, for an audit during which no query fails): an audit that
\* follows a repair which returned the status "fixed", on the same directory,
\* reports files_consistent, is_odoo_owner and is_odoo_group all true.
C30_AuditAfterFixedIsConsistent ==
  [][(/\ lastOp = "fix" /\ exists /\ "status" \in DOMAIN result
      /\ result.status = "fixed"
      /\ lastOp' = "check" /\ ~lastIn'.statFails /\ lastIn'.findFail = 0)
     => (/\ "files_consistent" \in DOMAIN result'
         /\ result'.files_consistent
         /\ result'.is_odoo_owner /\ result'.is_odoo_group)]_vars

\* the state strings a poll may report
StateWords == {"active", "inactive", "activating", "failed", "dead", "error"}

\* the last operation was a poll of a registry whose family discovers
\* instances, and discovery reported unit
Discovered(unit) ==
  /\ lastOp = "poll"
  /\ Lookup(loaded, PostgresKey).auto_detect
  /\ unit \in Range(DetectPostgresqlInstances(lastIn))

\* C21 (as claimed): with the entries odoo and postgres and the discovered
\* instance 14-main, the result of a poll has the keys odoo and
\* postgres_14-main.
C21_DerivedKeyIsFamilyAndInstance ==
  Discovered(Pg14) =>
    /\ OdooKey \in DOMAIN result
    /\ <<"postgres", "_", "14-main">> \in DOMAIN result

\* C21 (amended): for every unit postgresql@I that discovery reports, the
\* result of a poll has the key postgres_postgresql_I, the unit name with
\* "@" replaced by "_" after the family key, next to the key of every
\* entry, each mapped to a state string.
C21_DerivedKeyIsFamilyAndUnit ==
  \A unit \in {Pg14, Pg15, Pg16} :
    Discovered(unit) =>
      /\ <<"postgres", "_", "postgresql", "_", unit[3]>> \in DOMAIN result
      /\ \A i \in DOMAIN loaded : loaded[i].key \in DOMAIN result
      /\ \A k \in DOMAIN result : result[k] \in StateWords

\* a poll found postgresql@14-main and reports it active
C21_Witness ==
  /\ Discovered(Pg14)
  /\ result[<<"postgres", "_", "postgresql", "_", "14-main">>] = "active"
  /\ result[OdooKey] = "inactive"

\* the queries of the last poll made for instances of the family
DerivedQueries == {i \in DOMAIN calls : calls[i].derived}

\* C22 (as claimed): when the family has auto_detect, one explicitly
\* configured instance, and discovery reports two instances of which one is
\* the configured one, the poll returns exactly two derived keys and queries
\* each of the two instances once.
C22_UnionWithoutDuplicates ==
  (/\ lastOp = "poll"
   /\ Lookup(loaded, PostgresKey).auto_detect
   /\ Len(Lookup(loaded, PostgresKey).instances) = 1
   /\ Len(DetectPostgresqlInstances(lastIn)) = 2
   /\ ConfiguredInstances(loaded) \subseteq Range(DetectPostgresqlInstances(lastIn)))
  => /\ Cardinality(DerivedQueries) = 2
     /\ Cardinality({calls[i].key : i \in DerivedQueries}) = 2
     /\ {calls[i].unit : i \in DerivedQueries} = Range(DetectPostgresqlInstances(lastIn))

\* the last operation was a poll during which the state query of one unit
\* raised
PolledWithFailure == lastOp = "poll" /\ lastIn.answer = LiveRaises

\* C23: when the state query of one target fails during a poll, the key of
\* that target is mapped to "error" and no other key is: every entry of the
\* registry and every instance of the family is still queried and is in the
\* result with its own state.
C23_QueryFailureIsIsolated ==
  PolledWithFailure =>
    /\ \A i \in DOMAIN calls :
         /\ calls[i].key \in DOMAIN result
         /\ result[calls[i].key] =
              (IF calls[i].unit = lastIn.unit THEN "error" ELSE "inactive")
    /\ \A i \in DOMAIN registry :
         \E j \in DOMAIN calls :
           calls[j].key = registry[i].key /\ calls[j].unit = registry[i].service_name
    /\ \A inst \in ConfiguredInstances(loaded)
                     \cup (IF Lookup(loaded, PostgresKey).auto_detect
                            THEN Range(DetectPostgresqlInstances(lastIn)) ELSE {}) :
         \E j \in DerivedQueries : calls[j].unit = inst

\* the query of the first entry raised and three more targets were polled
C23_Witness ==
  /\ PolledWithFailure /\ lastIn.unit = OdooUnit
  /\ result[OdooKey] = "error"
  /\ result[PostgresKey] = "inactive"
  /\ Cardinality(DerivedQueries) >= 2

\* the last operation was a state query whose is-active command ran
Queried == lastOp = "status" /\ ~lastIn.answer.liveRaises

\* the lines of a report that begin with the label Active
ActiveLines(report) ==
  {i \in DOMAIN report : report[i][1] = "Active" /\ report[i][2] = ":"}

\* the state word of the first Active line of a report, parentheses dropped
ActiveWord(report) ==
  LET i == CHOOSE j \in ActiveLines(report) : \A k \in ActiveLines(report) : j <= k
      w == report[i][3]
  IN  IF w = "(dead)" THEN "dead" ELSE w

C25_DiscoveryFailureUsesConfigured ==
  (lastOp = "poll" /\ lastIn.listRaises) =>
    /\ {calls[i].unit : i \in DerivedQueries} = ConfiguredInstances(loaded)
    /\ \A i \in DOMAIN loaded : loaded[i].key \in DOMAIN result

\* the last operation was a start, stop or restart
Controlled == lastOp \in {"start", "stop", "restart"}

C28_LoadsAtMostOnce ==
  [][lastOp' = "get_config" =>
       LET f == configFiles[EffectivePath(lastIn'.arg, lastIn'.env)]
       IN  /\ cached =>
                /\ ~result'.raised /\ result'.config = registry
                /\ calls' = <<>>
                /\ cached' /\ registry' = registry
           /\ ~cached =>
                /\ calls' # <<>>
                /\ result'.raised <=> f.kind # "ok"
                /\ result'.raised => ~cached'
                /\ ~result'.raised =>
                     (cached' /\ registry' = f.services /\ result'.config = f.services)]_vars

\* a call that names a path without a file got the cached configuration
C28_Witness ==
  /\ lastOp = "get_config" /\ lastIn.arg # "None"
  /\ configFiles[lastIn.arg] = FileMissing
  /\ cached /\ ~result.raised /\ result.config = OtherRegistry /\ calls = <<>>

\* the elements of list that are in set, in the order of list
Keep(list, set) == SelectSeq(list, LAMBDA c : c \in set)

\* C27: when broadcast or broadcast_json returns and neither connect nor
\* disconnect ran meanwhile, no connection whose send raised is in
\* active_connections, and the connections whose send succeeded are all in
\* it, in the order they had when the broadcast began; and a disconnect of
\* a connection that is not in the list leaves the list as it was.
C27_BroadcastDropsFailedKeepsOthers ==
  [][/\ (lastOp' = "broadcast" /\ bcast'.quiet) =>
          LET failed == Range(bcast'.disconnected)
              succeeded == Range(bcast'.sent) \ failed
          IN  /\ Range(bcast'.sent) = Range(bcast'.start)
              /\ \A c \in failed : c \notin Range(active_connections')
              /\ \A c \in succeeded : c \in Range(active_connections')
              /\ Keep(active_connections', succeeded) = Keep(bcast'.start, succeeded)
     /\ (lastOp' = "disconnect" /\ lastIn'.conn \notin Range(active_connections)) =>
          active_connections' = active_connections]_vars

\* an undisturbed broadcast to three connections whose second send raised
C27_Witness ==
  /\ lastOp = "broadcast" /\ bcast.quiet
  /\ Len(bcast.start) = 3
  /\ bcast.disconnected = <<bcast.start[2]>>
  /\ active_connections = <<bcast.start[1], bcast.start[3]>>

\* the number of sends the broadcast issued to connection c
SendsTo(c) == Cardinality({i \in DOMAIN bcast.sent : bcast.sent[i] = c})

\* C29: when a handler disconnected its connection while broadcast_json was
\* suspended on a send, every connection that was in active_connections
\* from the beginning of the broadcast to its end was sent the message
\* exactly once.
C29_RemovalNeverSkipsAnother ==
  (lastOp = "broadcast" /\ bcast.kind = "json" /\ bcast.left # {}) =>
    \A c \in Range(bcast.start) \ bcast.left : SendsTo(c) = 1

====
